---- MODULE Spec2Model ----
(***************************************************************************)
(* Model of reframe/frontend/statistics.py: the TestStats store            *)
(* (_alltasks, a list of runs, each a list of tasks), the process-wide     *)
(* current-run index it reads from the runtime, and its report generators. *)
(*                                                                         *)
(* The current-run index belongs to the runtime; the engine advances it by *)
(* one, from a run the store holds.                                        *)
(*                                                                         *)
(* Strings are TLA+ strings; where the code orders or concatenates strings *)
(* (the retry report's keys) they are taken to their character codes by    *)
(* Codes.  A report is the sequence of its lines ('\n'.join of the list    *)
(* the code builds); the empty string is the report without lines.  Each   *)
(* line is a record carrying the values the format string interpolates.    *)
(* Of the json() entry the fields that do not depend on the task's outcome *)
(* or run and are copied verbatim (description, tags, maintainers, the     *)
(* stdout/stderr paths) are left out, and with them the failure report's   *)
(* description and maintainers lines.                                      *)
(***************************************************************************)
EXTENDS Integers, Sequences, FiniteSets, TLC

\* Highest value the engine gives the current-run index.
MaxRun == 2
\* Number of add_task calls in a session.
MaxCalls == 3

\* Python's None, distinct from every string the model uses.
None == "<None>"

(***************************************************************************)
(* Character codes (ASCII) of the strings that take part in keys.          *)
(***************************************************************************)
Colon == 58

Codes(s) ==
    CASE s = ""    -> <<>>
      [] s = "t"   -> <<116>>
      [] s = "u"   -> <<117>>
      [] s = "s:p" -> <<115, 58, 112>>
      [] s = "s:q" -> <<115, 58, 113>>
      [] s = "e"   -> <<101>>

\* Python's str < str: lexicographic on the code points, a proper prefix first.
RECURSIVE StrLess(_, _)
StrLess(a, b) ==
    IF b = <<>> THEN FALSE
    ELSE IF a = <<>> THEN TRUE
    ELSE IF Head(a) # Head(b) THEN Head(a) < Head(b)
    ELSE StrLess(Tail(a), Tail(b))

(***************************************************************************)
(* Task records as the store consumes them: t.check.name,                  *)
(* t.check.current_partition (fullname or None), t.check.current_environ   *)
(* (name or None), t.failed, t.exc_info, t.failed_stage, check.stagedir,   *)
(* check.outputdir, check.job, check.perfvalues (key components, value and *)
(* unit or None when the reference tuple has no fifth element).            *)
(***************************************************************************)
MkTask(name, part, env, failed, exc, stage, perf, job) ==
    [name |-> name, part |-> part, env |-> env, failed |-> failed,
     exc_info |-> exc, failed_stage |-> stage,
     stagedir |-> "/stage", outputdir |-> "/out",
     perfvalues |-> perf, has_job |-> job,
     scheduler |-> IF job THEN "local" ELSE None,
     jobid |-> IF job THEN "7" ELSE None,
     nodelist |-> IF job THEN <<"n1">> ELSE <<>>,
     num_tasks |-> 1]

PerfBw  == [key |-> <<"s", "p", "bw">>, val |-> 10, unit |-> "GB/s"]
PerfLat == [key |-> <<"lat">>, val |-> 3, unit |-> None]

Tasks ==
    { MkTask("t", "s:p", "e",  FALSE, None,  None,          <<PerfBw>>,          TRUE),
      MkTask("t", "s:q", "e",  TRUE,  "exc", "sanity",      <<PerfLat>>,         FALSE),
      MkTask("u", "s:q", None, FALSE, None,  None,          <<PerfBw, PerfLat>>, TRUE),
      MkTask("u", "s:q", None, TRUE,  None,  "performance", <<>>,                FALSE) }

\* Arguments the callers pass for `run`.
RunArgs == (0 - MaxRun - 2) .. (MaxRun + 1)

VARIABLES
    alltasks,      \* self._alltasks: the runs, run r at position r + 1
    current_run,   \* rt.runtime().current_run
    calls,         \* history: calls[r] = add_task calls made while current_run = r
    ret            \* the last operation: its name, argument, raised error, value

vars == <<alltasks, current_run, calls, ret>>

Ok == "ok"

\* run: the argument of a lookup; task: the argument of add_task (a sequence
\* of one task); val: the returned sequence; n: the returned number.
Ret(op, run, task, err, val, n) ==
    [op |-> op, run |-> run, task |-> task, err |-> err, val |-> val, n |-> n]

(***************************************************************************)
(* TestStats.__init__                                                      *)
(***************************************************************************)
Init ==
    /\ alltasks = << <<>> >>
    /\ current_run = 0
    /\ calls = [r \in 0..MaxRun |-> 0]
    /\ ret = Ret("init", 0, <<>>, Ok, <<>>, 0)

(***************************************************************************)
(* TestStats.add_task: the store after the call and the error it raises.   *)
(* alltasks[current_run] with current_run > len raises IndexError before   *)
(* anything is stored.                                                     *)
(***************************************************************************)
\* mutant: the task that opens a run is dropped
add_task_dropfirst(all, cr, task) ==
    IF cr = Len(all) THEN [err |-> Ok, all |-> Append(all, <<>>)]
    ELSE IF cr < Len(all)
    THEN [err |-> Ok, all |-> [all EXCEPT ![cr + 1] = Append(@, task)]]
    ELSE [err |-> "IndexError", all |-> all]

\* mutant: the task goes to the initial run
add_task_first(all, cr, task) ==
    LET grown == IF cr = Len(all) THEN Append(all, <<>>) ELSE all
    IN  IF cr < Len(grown)
        THEN [err |-> Ok,
              all |-> [grown EXCEPT ![1] = Append(@, task)]]
        ELSE [err |-> "IndexError", all |-> all]

\* mutant: current_run >= len - 1 in place of current_run == len
add_task_offbyone(all, cr, task) ==
    LET grown == IF cr >= Len(all) - 1 THEN Append(all, <<>>) ELSE all
    IN  IF cr < Len(grown)
        THEN [err |-> Ok,
              all |-> [grown EXCEPT ![cr + 1] = Append(@, task)]]
        ELSE [err |-> "IndexError", all |-> all]

add_task(all, cr, task) ==
    LET grown == IF cr = Len(all) THEN Append(all, <<>>) ELSE all
    IN  IF cr < Len(grown)
        THEN [err |-> Ok,
              all |-> [grown EXCEPT ![cr + 1] = Append(@, task)]]
        ELSE [err |-> "IndexError", all |-> all]

(***************************************************************************)
(* TestStats.tasks: Python list indexing, a negative index counting from   *)
(* the end, IndexError turned into StatisticsError.                        *)
(***************************************************************************)
\* mutant: no negative indices
tasks_nonneg(all, run) ==
    IF 0 <= run /\ run < Len(all)
    THEN [err |-> Ok, val |-> all[run + 1]]
    ELSE [err |-> "StatisticsError", val |-> <<>>]

tasks(all, run) ==
    IF 0 <= run /\ run < Len(all)
    THEN [err |-> Ok, val |-> all[run + 1]]
    ELSE IF run < 0 /\ 0 - run <= Len(all)
    THEN [err |-> Ok, val |-> all[Len(all) + run + 1]]
    ELSE [err |-> "StatisticsError", val |-> <<>>]

IsFailed(t) == t.failed

\* TestStats.failures
failures(all, run) ==
    LET r == tasks(all, run)
    IN  IF r.err # Ok THEN r ELSE [err |-> Ok, val |-> SelectSeq(r.val, IsFailed)]

\* TestStats.num_cases
num_cases(all, run) ==
    LET r == tasks(all, run)
    IN  IF r.err # Ok THEN [err |-> r.err, val |-> 0]
        ELSE [err |-> Ok, val |-> Len(r.val)]

(***************************************************************************)
(* TestStats.retry_report                                                  *)
(***************************************************************************)
\* key = '%s:%s:%s' % (t.check.name, partition_name, environ_name)
RetryKey(t) ==
    LET partition_name == IF t.part # None THEN t.part ELSE ""
        environ_name   == IF t.env # None THEN t.env ELSE ""
    IN  Codes(t.name) \o <<Colon>> \o Codes(partition_name)
            \o <<Colon>> \o Codes(environ_name)

\* '  * Test %s was retried %s time(s) and %s.'
RetryMessage(t, run) ==
    [kind |-> "retried", name |-> t.name, part |-> t.part, env |-> t.env,
     run |-> run, outcome |-> IF t.failed THEN "failed" ELSE "passed"]

\* mutant: an entry of an earlier task is kept
RECURSIVE RetryRun_keepfirst(_, _, _)
RetryRun_keepfirst(messages, ts, run) ==
    IF ts = <<>> THEN messages
    ELSE LET t   == Head(ts)
             key == RetryKey(t)
         IN  RetryRun_keepfirst(
                 [k \in (DOMAIN messages) \cup {key} |->
                     IF k \in DOMAIN messages THEN messages[k]
                     ELSE RetryMessage(t, run)],
                 Tail(ts), run)

\* messages[key] = ... for the tasks of one run, in order
RECURSIVE RetryRun(_, _, _)
RetryRun(messages, ts, run) ==
    IF ts = <<>> THEN messages
    ELSE LET t   == Head(ts)
             key == RetryKey(t)
         IN  RetryRun([k \in (DOMAIN messages) \cup {key} |->
                          IF k = key THEN RetryMessage(t, run) ELSE messages[k]],
                      Tail(ts), run)

\* for run in range(1, len(self._alltasks))
RECURSIVE RetryRuns(_, _, _)
RetryRuns(messages, all, run) ==
    IF run >= Len(all) THEN messages
    ELSE RetryRuns(RetryRun(messages, all[run + 1], run), all, run + 1)

\* sorted(keys)
RECURSIVE SortedKeys(_)
SortedKeys(S) ==
    IF S = {} THEN <<>>
    ELSE LET m == CHOOSE k \in S : \A o \in S \ {k} : StrLess(k, o)
         IN  <<m>> \o SortedKeys(S \ {m})

Line(kind) == [kind |-> kind]

retry_report(all, cr) ==
    IF cr = 0 THEN <<>>
    ELSE LET messages == RetryRuns(<<>>, all, 1)
             keys     == SortedKeys(DOMAIN messages)
         IN  <<Line("="), Line("SUMMARY OF RETRIES"), Line("-")>>
                 \o [i \in 1..Len(keys) |-> messages[keys[i]]]

(***************************************************************************)
(* TestStats.json                                                          *)
(***************************************************************************)
\* reframe.core.exceptions.format_exception, applied to a present exc_info
format_exception(exc) == IF exc = "exc" THEN "exc: formatted" ELSE "unexpected"

JsonEntry(t, run_no) ==
    [testname |-> t.name, system |-> t.part, environment |-> t.env,
     scheduler |-> IF t.has_job THEN t.scheduler ELSE None,
     jobid |-> IF t.has_job THEN t.jobid ELSE None,
     nodelist |-> IF t.has_job THEN t.nodelist ELSE <<>>,
     failing_reason |-> IF t.failed /\ t.exc_info # None
                        THEN format_exception(t.exc_info) ELSE None,
     failing_phase |-> IF t.failed /\ t.exc_info # None
                       THEN t.failed_stage ELSE None,
     stagedir |-> IF t.failed /\ t.exc_info # None THEN t.stagedir ELSE None,
     outputdir |-> IF t.failed THEN None ELSE t.outputdir,
     result |-> IF t.failed THEN "fail" ELSE "success",
     run_no |-> run_no]

\* for run_no, run in enumerate(self._alltasks): for t in run
RECURSIVE JsonRuns(_, _)
JsonRuns(all, run_no) ==
    IF run_no >= Len(all) THEN <<>>
    ELSE [i \in 1..Len(all[run_no + 1]) |->
              JsonEntry(all[run_no + 1][i], run_no)]
             \o JsonRuns(all, run_no + 1)

\* mutant: the records of the last run only
json_lastrun(all) == JsonRuns(all, Len(all) - 1)

json(all) == JsonRuns(all, 0)

(***************************************************************************)
(* TestStats.failure_report                                                *)
(***************************************************************************)
FailureInfo(r, last_run) ==
    << Line("-"),
       [kind |-> "FAILURE INFO", testname |-> r.testname,
        retries |-> IF last_run > 0 THEN last_run ELSE 0],
       [kind |-> "System partition", val |-> r.system],
       [kind |-> "Environment", val |-> r.environment],
       [kind |-> "Stage directory", val |-> r.stagedir],
       [kind |-> "Node list", nodes |-> r.nodelist],
       [kind |-> "Job type",
        val |-> IF r.scheduler = "local" THEN "local" ELSE "batch job",
        jobid |-> r.jobid],
       [kind |-> "Failing phase", val |-> r.failing_phase],
       [kind |-> "Rerun with", testname |-> r.testname,
        environment |-> r.environment, system |-> r.system],
       [kind |-> "Reason", val |-> r.failing_reason],
       IF r.failing_phase = "sanity" THEN Line("Sanity check failure")
       ELSE IF r.failing_phase = "performance"
       THEN Line("Performance check failure")
       ELSE Line("Unknown error.") >>

RECURSIVE FailureInfos(_, _)
FailureInfos(records, last_run) ==
    IF records = <<>> THEN <<>>
    ELSE LET r == Head(records)
         IN  (IF r.result = "success" \/ r.run_no # last_run THEN <<>>
              ELSE FailureInfo(r, last_run))
                 \o FailureInfos(Tail(records), last_run)

failure_report(all, cr) ==
    <<Line("="), Line("SUMMARY OF FAILURES")>>
        \o FailureInfos(json(all), cr) \o <<Line("-")>>

(***************************************************************************)
(* TestStats.failure_stats                                                 *)
(***************************************************************************)
\* f'[{check.name}, {environ_name}, {partfullname}]'
FailureLabel(tf) ==
    [name |-> tf.name,
     environ_name |-> IF tf.env # None THEN tf.env ELSE "None",
     partfullname |-> IF tf.part # None THEN tf.part ELSE "None"]

\* The dict `failures`, in insertion order: <<stage, labels>> pairs.
RECURSIVE GroupFailures(_, _)
GroupFailures(fs, ts) ==
    IF ts = <<>> THEN fs
    ELSE LET tf == Head(ts)
             at == {i \in 1..Len(fs) : fs[i].stage = tf.failed_stage}
             withstage == IF at = {}
                          THEN Append(fs, [stage |-> tf.failed_stage,
                                           labels |-> <<>>])
                          ELSE fs
             j == CHOOSE i \in 1..Len(withstage) :
                      withstage[i].stage = tf.failed_stage
         IN  GroupFailures(
                 [withstage EXCEPT ![j].labels = Append(@, FailureLabel(tf))],
                 Tail(ts))

RECURSIVE SumLen(_)
SumLen(fs) == IF fs = <<>> THEN 0 ELSE Len(Head(fs).labels) + SumLen(Tail(fs))

RECURSIVE StatsRows(_)
StatsRows(fs) ==
    IF fs = <<>> THEN <<>>
    ELSE LET p == Head(fs).stage
             l == Head(fs).labels
         IN  <<[kind |-> "row", phase |-> p, count |-> Len(l), label |-> l[1]]>>
                 \o [i \in 1..(Len(l) - 1) |->
                        [kind |-> "row", phase |-> "", count |-> 0,
                         label |-> l[i + 1]]]
                 \o StatsRows(Tail(fs))

failure_stats(all, cr) ==
    LET cur == tasks(all, cr)
    IN  IF cur.err # Ok THEN [err |-> cur.err, val |-> <<>>]
        ELSE LET fails == GroupFailures(<<>>, SelectSeq(cur.val, IsFailed))
                 num_tests == Len(cur.val)
                 num_failures == SumLen(fails)
             IN  [err |-> Ok,
                  val |-> <<Line("="), Line("FAILURE STATISTICS"), Line(""),
                            [kind |-> "Total number of test cases",
                             n |-> num_tests],
                            [kind |-> "Total number of failures",
                             n |-> num_failures],
                            Line(""), Line("Phase # Failing test cases"),
                            Line("hline")>>
                              \o StatsRows(fails) \o <<Line("-")>>]

(***************************************************************************)
(* TestStats.performance_report                                            *)
(***************************************************************************)
\* for key, ref in t.check.perfvalues.items()
PerfLines(t) ==
    [i \in 1..Len(t.perfvalues) |->
        LET pv == t.perfvalues[i]
        IN  [kind |-> "perf", var |-> pv.key[Len(pv.key)], val |-> pv.val,
             unit |-> IF pv.unit # None THEN pv.unit
                      ELSE "(no unit specified)",
             name |-> t.name, part |-> t.part]]

\* mutant: a task without performance values becomes the previous one
RECURSIVE PerfBody_stale(_, _, _)
PerfBody_stale(ts, previous_name, previous_part) ==
    IF ts = <<>> THEN <<>>
    ELSE LET t == Head(ts)
         IN  IF t.perfvalues # <<>>
             THEN (IF t.name # previous_name
                   THEN <<Line("-"), [kind |-> "test", name |-> t.name]>>
                   ELSE <<>>)
                  \o (IF t.part # previous_part
                      THEN <<[kind |-> "partition", part |-> t.part]>>
                      ELSE <<>>)
                  \o <<[kind |-> "environ", env |-> t.env],
                       [kind |-> "num_tasks", n |-> t.num_tasks]>>
                  \o PerfLines(t)
                  \o PerfBody_stale(Tail(ts), t.name, t.part)
             ELSE PerfBody_stale(Tail(ts), t.name, t.part)

RECURSIVE PerfBody(_, _, _)
PerfBody(ts, previous_name, previous_part) ==
    IF ts = <<>> THEN <<>>
    ELSE LET t == Head(ts)
         IN  IF t.perfvalues # <<>>
             THEN (IF t.name # previous_name
                   THEN <<Line("-"), [kind |-> "test", name |-> t.name]>>
                   ELSE <<>>)
                  \o (IF t.part # previous_part
                      THEN <<[kind |-> "partition", part |-> t.part]>>
                      ELSE <<>>)
                  \o <<[kind |-> "environ", env |-> t.env],
                       [kind |-> "num_tasks", n |-> t.num_tasks]>>
                  \o PerfLines(t)
                  \o PerfBody(Tail(ts), t.name, t.part)
             ELSE PerfBody(Tail(ts), previous_name, previous_part)

RECURSIVE Concat(_)
Concat(all) == IF all = <<>> THEN <<>> ELSE Head(all) \o Concat(Tail(all))

\* mutant: the tasks of every run
ReportedTasks_allruns(all) == Concat(all)

\* for t in self.tasks()
ReportedTasks(all) == tasks(all, 0 - 1).val

performance_report(all) ==
    LET report_body == PerfBody(ReportedTasks(all), "", "")
    IN  IF report_body # <<>>
        THEN <<Line("="), Line("PERFORMANCE REPORT")>> \o report_body
                 \o <<Line("-")>>
        ELSE <<>>

(***************************************************************************)
(* Operations                                                              *)
(***************************************************************************)
RECURSIVE SumCalls(_)
SumCalls(r) == IF r < 0 THEN 0 ELSE calls[r] + SumCalls(r - 1)

\* The engine's next_run(): the index advances by one, and only from a run
\* the store already holds.
Advance ==
    /\ current_run < MaxRun
    /\ current_run < Len(alltasks)
    /\ current_run' = current_run + 1
    /\ ret' = Ret("next_run", 0, <<>>, Ok, <<>>, 0)
    /\ UNCHANGED <<alltasks, calls>>

AddTask ==
    \E task \in Tasks :
        LET r == add_task(alltasks, current_run, task)
        IN  /\ SumCalls(MaxRun) < MaxCalls
            /\ alltasks' = r.all
            /\ calls' = [calls EXCEPT ![current_run] = @ + 1]
            /\ ret' = Ret("add_task", 0, <<task>>, r.err, <<>>, 0)
            /\ UNCHANGED current_run

TasksOp ==
    \E run \in RunArgs :
        LET r == tasks(alltasks, run)
        IN  /\ ret' = Ret("tasks", run, <<>>, r.err, r.val, 0)
            /\ UNCHANGED <<alltasks, current_run, calls>>

FailuresOp ==
    \E run \in RunArgs :
        LET r == failures(alltasks, run)
        IN  /\ ret' = Ret("failures", run, <<>>, r.err, r.val, 0)
            /\ UNCHANGED <<alltasks, current_run, calls>>

NumCasesOp ==
    \E run \in RunArgs :
        LET r == num_cases(alltasks, run)
        IN  /\ ret' = Ret("num_cases", run, <<>>, r.err, <<>>, r.val)
            /\ UNCHANGED <<alltasks, current_run, calls>>

RetryReportOp ==
    /\ ret' = Ret("retry_report", 0, <<>>, Ok,
                  retry_report(alltasks, current_run), 0)
    /\ UNCHANGED <<alltasks, current_run, calls>>

JsonOp ==
    /\ ret' = Ret("json", 0, <<>>, Ok, json(alltasks), 0)
    /\ UNCHANGED <<alltasks, current_run, calls>>

FailureReportOp ==
    /\ ret' = Ret("failure_report", 0, <<>>, Ok,
                  failure_report(alltasks, current_run), 0)
    /\ UNCHANGED <<alltasks, current_run, calls>>

FailureStatsOp ==
    LET r == failure_stats(alltasks, current_run)
    IN  /\ ret' = Ret("failure_stats", 0, <<>>, r.err, r.val, 0)
        /\ UNCHANGED <<alltasks, current_run, calls>>

PerformanceReportOp ==
    /\ ret' = Ret("performance_report", 0, <<>>, Ok,
                  performance_report(alltasks), 0)
    /\ UNCHANGED <<alltasks, current_run, calls>>

Next ==
    \/ Advance
    \/ AddTask
    \/ TasksOp
    \/ FailuresOp
    \/ NumCasesOp
    \/ RetryReportOp
    \/ JsonOp
    \/ FailureReportOp
    \/ FailureStatsOp
    \/ PerformanceReportOp

Spec == Init /\ [][Next]_vars

TypeOK ==
    /\ current_run \in 0..MaxRun
    /\ Len(alltasks) \in 1..(MaxRun + 1)
    /\ \A i \in 1..Len(alltasks) : \A j \in 1..Len(alltasks[i]) :
           alltasks[i][j] \in Tasks

(***************************************************************************)
(* Properties                                                              *)
(***************************************************************************)
RunsInStore == 0..(Len(alltasks) - 1)

\* C1: for every run r in the store, num_cases(r) is the number of add_task
\* calls made while the current-run index was r.
C1_NumCasesCountsCalls ==
    /\ \A r \in RunsInStore :
           /\ num_cases(alltasks, r).err = Ok
           /\ num_cases(alltasks, r).val = calls[r]
    /\ (ret.op = "num_cases" /\ ret.run \in RunsInStore)
           => (ret.err = Ok /\ ret.n = calls[ret.run])

C1_Witness ==
    /\ ret.op = "num_cases" /\ ret.run = 1 /\ ret.n = 2
    /\ calls[0] = 1 /\ calls[1] = 2
    /\ current_run = 1

\* C2: an add_task call appends its record at the end of the run at the
\* current-run index and leaves every other run as it was; the index never
\* decreases, and a run the index has advanced past is never changed by any
\* step.
C2_AppendOnlyToCurrentRun ==
    [][ /\ ret'.op = "add_task" =>
             /\ Len(alltasks') > current_run
             /\ alltasks'[current_run + 1] =
                    Append(IF current_run < Len(alltasks)
                           THEN alltasks[current_run + 1] ELSE <<>>,
                           ret'.task[1])
             /\ \A r \in RunsInStore :
                    r # current_run => alltasks'[r + 1] = alltasks[r + 1]
        /\ current_run' >= current_run
        /\ \A r \in RunsInStore :
               r < current_run =>
                   /\ Len(alltasks') > r
                   /\ alltasks'[r + 1] = alltasks[r + 1] ]_vars

C2_Witness ==
    /\ ret.op = "add_task"
    /\ current_run = 1
    /\ Len(alltasks) = 2
    /\ Len(alltasks[1]) = 1
    /\ Len(alltasks[2]) = 2
    /\ alltasks[2][2] = ret.task[1]

\* C3: the store starts as the single empty run 0; the number of runs grows
\* only by an add_task call made when the current-run index has no sequence
\* yet, every such call grows it, by exactly one run, which then is the run
\* at the current-run index and holds just the new record.
C3_LazyRunCreation ==
    /\ alltasks = << <<>> >>
    /\ [][ /\ Len(alltasks') \in {Len(alltasks), Len(alltasks) + 1}
           /\ (Len(alltasks') = Len(alltasks) + 1)
                  <=> (ret'.op = "add_task" /\ current_run >= Len(alltasks))
           /\ (Len(alltasks') = Len(alltasks) + 1) =>
                  /\ Len(alltasks') = current_run + 1
                  /\ alltasks'[current_run + 1] = ret'.task ]_vars

C3_Witness ==
    /\ ret.op = "add_task"
    /\ Len(alltasks) = 3
    /\ current_run = 2
    /\ alltasks[3] = ret.task

\* C4: with lastIndex the index of the last run, tasks(run) for run in
\* -lastIndex-1 .. lastIndex returns that run's sequence, a negative run
\* counting from the end (tasks(-1) is tasks(lastIndex)); for any other run
\* tasks, failures and num_cases raise StatisticsError; none of the three
\* changes the store.
C4_RunLookup ==
    [][ ret'.op \in {"tasks", "failures", "num_cases"} =>
          LET lastIndex == Len(alltasks) - 1
              run == ret'.run
              at  == IF run >= 0 THEN run ELSE lastIndex + 1 + run
          IN  /\ alltasks' = alltasks
              /\ IF run \in (0 - lastIndex - 1)..lastIndex
                 THEN /\ ret'.err = Ok
                      /\ ret'.op = "tasks" => ret'.val = alltasks[at + 1]
                 ELSE ret'.err = "StatisticsError"
              /\ tasks(alltasks, 0 - 1) = tasks(alltasks, lastIndex) ]_vars

C4_Witness ==
    /\ ret.op = "tasks" /\ ret.run = 0 - 1 /\ ret.err = Ok
    /\ Len(alltasks) = 2
    /\ ret.val = alltasks[2]
    /\ ret.val # alltasks[1]

\* The tasks of run r, empty for a run without a sequence in the store.
RunTasks(r) == IF r \in RunsInStore THEN alltasks[r + 1] ELSE <<>>

Max(S) == CHOOSE m \in S : \A o \in S : o <= m

\* The runs from 1 to the current run in which a task with key k occurs.
RetriedIn(k) ==
    {r \in 1..current_run :
        \E j \in 1..Len(RunTasks(r)) : RetryKey(RunTasks(r)[j]) = k}

RetriedKeys ==
    {RetryKey(RunTasks(r)[j]) : <<r, j>> \in
        {p \in (1..current_run) \X (1..MaxCalls + 1) : p[2] <= Len(RunTasks(p[1]))}}

\* The last task with key k in run r.
LastWithKey(r, k) ==
    LET ts == RunTasks(r)
        j  == Max({i \in 1..Len(ts) : RetryKey(ts[i]) = k})
    IN  ts[j]

\* C5: with a current-run index above 0 the retry report has exactly one
\* message per key occurring in runs 1..current run; the message gives the
\* highest run in which the key occurs and the outcome of the key's (last)
\* task in that run; the messages are in ascending order of the key string.
C5_RetryReportLatestWins ==
    (ret.op = "retry_report" /\ current_run > 0) =>
        LET msgs == SubSeq(ret.val, 4, Len(ret.val))
        IN  /\ Len(ret.val) >= 3
            /\ Len(msgs) = Cardinality(RetriedKeys)
            /\ \A k \in RetriedKeys :
                   \E i \in 1..Len(msgs) : RetryKey(msgs[i]) = k
            /\ \A i \in 1..Len(msgs) :
                   LET k == RetryKey(msgs[i])
                   IN  /\ k \in RetriedKeys
                       /\ msgs[i].run = Max(RetriedIn(k))
                       /\ msgs[i].outcome =
                              (IF LastWithKey(msgs[i].run, k).failed
                               THEN "failed" ELSE "passed")
            /\ \A i \in 1..Len(msgs) : \A j \in 1..Len(msgs) :
                   i < j => StrLess(RetryKey(msgs[i]), RetryKey(msgs[j]))

\* A key that failed in run 1 and passed in run 2, next to a second key.
C5_Witness ==
    /\ ret.op = "retry_report"
    /\ current_run = 2
    /\ Len(alltasks) = 3
    /\ Len(alltasks[2]) = 2
    /\ alltasks[2][1].name = "u" /\ alltasks[2][1].failed
    /\ alltasks[2][2].name = "t" /\ alltasks[2][2].part = "s:p"
    /\ Len(alltasks[3]) = 1
    /\ alltasks[3][1].name = "u" /\ ~alltasks[3][1].failed
    /\ Len(ret.val) = 5
    /\ ret.val[4].name = "t" /\ ret.val[4].run = 1
    /\ ret.val[5].name = "u" /\ ret.val[5].run = 2
    /\ ret.val[5].outcome = "passed"

RECURSIVE TasksBefore(_)
TasksBefore(r) == IF r <= 0 THEN 0 ELSE Len(RunTasks(r - 1)) + TasksBefore(r - 1)

\* C6: json() returns one record per stored task, as many as the sum of
\* num_cases(r) over the runs, ordered by run and by arrival within the run,
\* each with the run_no of the run holding its task.
C6_JsonOnePerTask ==
    ret.op = "json" =>
        /\ Len(ret.val) = TasksBefore(Len(alltasks))
        /\ \A r \in RunsInStore : \A j \in 1..Len(RunTasks(r)) :
               LET rec == ret.val[TasksBefore(r) + j]
                   t   == RunTasks(r)[j]
               IN  /\ rec.run_no = r
                   /\ rec.testname = t.name
                   /\ rec.system = t.part
                   /\ rec.environment = t.env
                   /\ rec.result = (IF t.failed THEN "fail" ELSE "success")

C6_Witness ==
    /\ ret.op = "json"
    /\ Len(alltasks) = 2
    /\ Len(alltasks[1]) = 2 /\ Len(alltasks[2]) = 1
    /\ alltasks[1][1] # alltasks[1][2]
    /\ Len(ret.val) = 3
    /\ ret.val[3].run_no = 1

HasLine(report, kind) == \E i \in 1..Len(report) : report[i].kind = kind

HasCount(report, kind, n) ==
    \E i \in 1..Len(report) : report[i].kind = kind /\ report[i].n = n

\* C7: whenever the current run holds no task, also when it has no sequence
\* in the store yet, failure_stats raises nothing and returns a report with
\* the banner and zero totals.
C7_FailureStatsOnEmptyRun ==
    (ret.op = "failure_stats" /\ RunTasks(current_run) = <<>>) =>
        /\ ret.err = Ok
        /\ ret.val # <<>>
        /\ HasLine(ret.val, "FAILURE STATISTICS")
        /\ HasCount(ret.val, "Total number of test cases", 0)
        /\ HasCount(ret.val, "Total number of failures", 0)

IsPerfLine(l) == l.kind = "perf"

RECURSIVE AllPerfLines(_)
AllPerfLines(ts) ==
    IF ts = <<>> THEN <<>> ELSE PerfLines(Head(ts)) \o AllPerfLines(Tail(ts))

C9_JsonOutcomeFields ==
    ret.op = "json" =>
        \A i \in 1..Len(ret.val) :
            LET rec == ret.val[i]
                t   == Concat(alltasks)[i]
            IN  IF t.failed
                THEN /\ rec.result = "fail"
                     /\ rec.failing_phase = t.failed_stage
                     /\ rec.stagedir = t.stagedir
                     /\ rec.outputdir = None
                ELSE /\ rec.result = "success"
                     /\ rec.outputdir = t.outputdir
                     /\ rec.failing_reason = None
                     /\ rec.failing_phase = None
                     /\ rec.stagedir = None

HasPerf(t) == t.perfvalues # <<>>
IsTestHeader(l) == l.kind = "test"
IsPartHeader(l) == l.kind = "partition"

\* The elements of ts at the positions in I, in order.
RECURSIVE Pick(_, _, _)
Pick(ts, i, I) ==
    IF i > Len(ts) THEN <<>>
    ELSE (IF i \in I THEN <<ts[i]>> ELSE <<>>) \o Pick(ts, i + 1, I)

NameChanges(ts) == {i \in 1..Len(ts) : i = 1 \/ ts[i].name # ts[i - 1].name}
PartChanges(ts) == {i \in 1..Len(ts) : i = 1 \/ ts[i].part # ts[i - 1].part}

\* C10: over the tasks with performance values that performance_report
\* iterates, a test header is emitted exactly for the first task and for each
\* task whose name differs from the previous such task's, a partition header
\* exactly for the first and for each whose partition differs from the
\* previous such task's; tasks without performance values change nothing.
C10_HeadersOnChange ==
    ret.op = "performance_report" =>
        LET ts  == SelectSeq(alltasks[Len(alltasks)], HasPerf)
            ths == SelectSeq(ret.val, IsTestHeader)
            phs == SelectSeq(ret.val, IsPartHeader)
            ets == Pick(ts, 1, NameChanges(ts))
            eps == Pick(ts, 1, PartChanges(ts))
        IN  /\ Len(ths) = Len(ets)
            /\ \A i \in 1..Len(ths) : ths[i].name = ets[i].name
            /\ Len(phs) = Len(eps)
            /\ \A i \in 1..Len(phs) : phs[i].part = eps[i].part

\* Tasks ordered [A@P1, A@P1, B@P2]: two test and two partition headers.
C10_Witness ==
    /\ ret.op = "performance_report"
    /\ Len(alltasks[Len(alltasks)]) = 3
    /\ LET ts == alltasks[Len(alltasks)]
       IN  /\ ts[1] = ts[2]
           /\ ts[1].name = "t" /\ ts[1].part = "s:p" /\ HasPerf(ts[1])
           /\ ts[3].name = "u" /\ ts[3].part = "s:q"
    /\ Len(SelectSeq(ret.val, IsTestHeader)) = 2
    /\ Len(SelectSeq(ret.val, IsPartHeader)) = 2

====
